---- MODULE Spec2Model ----
(***************************************************************************)
(* Model of the chunked summarization procedure of ai_summarizer_app:      *)
(* app_cloud.create_summary and gradio_version.summarize_text, and of the  *)
(* stream handlers of the two Ollama clients.                              *)
(*                                                                         *)
(* A Python str is a sequence of one-character strings, so that split,     *)
(* strip and join are computed on characters as Python computes them.      *)
(***************************************************************************)
EXTENDS Integers, Sequences, FiniteSets, TLC

\* ------------------------------------------------------------------ bounds
\* Texts have about k * max_input_length words for k up to MaxFull ...
MaxFull == 2
\* ... give or take up to MaxDelta words.
MaxDelta == 2
\* A streamed response has at most MaxLines lines.
MaxLines == 3
\* Budgets 0 < minWords < maxWords are tried up to maxWords = MaxBudget.
MaxBudget == 8
\* At most MaxSaves summaries are saved between two clearings of the history.
MaxSaves == 11
\* The clock advances by at most MaxClock seconds.
MaxClock == 1

\* ------------------------------------------------------- program constants
\* max_input_length = 1024
max_input_length == 1024
\* len(text.strip()) < 100
min_text_len == 100
\* default max_length / min_length of create_summary and summarize_text
default_max_length == 150
default_min_length == 50

\* ----------------------------------------------------------- Python strings
Whitespace == {" ", "\t", "\n"}

Min(a, b) == IF a < b THEN a ELSE b

Indices(s) == [i \in 1..Len(s) |-> i] \o << >>

\* str.split(): the maximal runs of non-whitespace characters, in order.
Split(s) ==
  LET n      == Len(s)
      idx    == Indices(s)
      starts == SelectSeq(idx,
                  LAMBDA i : s[i] \notin Whitespace
                             /\ (i = 1 \/ s[i - 1] \in Whitespace))
      ends   == SelectSeq(idx,
                  LAMBDA i : s[i] \notin Whitespace
                             /\ (i = n \/ s[i + 1] \in Whitespace))
      count  == Len(starts)
  IN  [k \in 1..count |-> SubSeq(s, starts[k], ends[k])] \o << >>

\* str.strip(): drop leading and trailing whitespace.
Strip(s) ==
  LET keep == SelectSeq(Indices(s), LAMBDA i : s[i] \notin Whitespace)
  IN  IF keep = << >> THEN << >> ELSE SubSeq(s, keep[1], keep[Len(keep)])

\* sep.join(list[lo..hi])
RECURSIVE JoinRange(_, _, _, _)
JoinRange(sep, list, lo, hi) ==
  IF lo > hi THEN << >>
  ELSE IF lo = hi THEN list[lo]
  ELSE LET mid == (lo + hi) \div 2
       IN  JoinRange(sep, list, lo, mid) \o sep \o JoinRange(sep, list, mid + 1, hi)

\* ' '.join(list)
JoinSpace(list) == JoinRange(<<" ">>, list, 1, Len(list))

\* a bug: range(0, n + 1, step), one start too many when step divides n
Range0Inclusive(n, step) ==
  SelectSeq([i \in 1..(n + 1) |-> i - 1] \o << >>, LAMBDA i : i % step = 0)

\* range(0, n, step) as the sequence of its values
Range0(n, step) == SelectSeq([i \in 1..n |-> i - 1] \o << >>, LAMBDA i : i % step = 0)

\* a bug: the slice words[i:i+max_input_length-1] loses the last word of a window
MakeChunksShort(words) ==
  LET n      == Len(words)
      starts == Range0(n, max_input_length)
      count  == Len(starts)
  IN  [c \in 1..count |->
         JoinRange(<<" ">>, words, starts[c] + 1,
                   Min(starts[c] + max_input_length - 1, n))] \o << >>

\* a bug: the slice words[i:i+max_input_length+1] overlaps the next window
MakeChunksOverlap(words) ==
  LET n      == Len(words)
      starts == Range0(n, max_input_length)
      count  == Len(starts)
  IN  [c \in 1..count |->
         JoinRange(<<" ">>, words, starts[c] + 1,
                   Min(starts[c] + max_input_length + 1, n))] \o << >>

\* [' '.join(words[i:i+max_input_length]) for i in range(0, len(words), max_input_length)]
MakeChunks(words) ==
  LET n      == Len(words)
      starts == Range0(n, max_input_length)
      count  == Len(starts)
  IN  [c \in 1..count |->
         JoinRange(<<" ">>, words, starts[c] + 1,
                   Min(starts[c] + max_input_length, n))] \o << >>

\* --------------------------------------------------------- message strings
\* "Please enter some text to summarize."
MSG_EMPTY == <<"P", "l", "e", "a", "s", "e", " ", "e", "n", "t", "e", "r", " ", "s", "o", "m", "e", " ", "t", "e", "x", "t", " ", "t", "o", " ", "s", "u", "m", "m", "a", "r", "i", "z", "e", ".">>
\* "Please enter at least 100 characters for meaningful summarization."
MSG_SHORT == <<"P", "l", "e", "a", "s", "e", " ", "e", "n", "t", "e", "r", " ", "a", "t", " ", "l", "e", "a", "s", "t", " ", "1", "0", "0", " ", "c", "h", "a", "r", "a", "c", "t", "e", "r", "s", " ", "f", "o", "r", " ", "m", "e", "a", "n", "i", "n", "g", "f", "u", "l", " ", "s", "u", "m", "m", "a", "r", "i", "z", "a", "t", "i", "o", "n", ".">>
\* "Error generating summary: "
ERROR_PREFIX == <<"E", "r", "r", "o", "r", " ", "g", "e", "n", "e", "r", "a", "t", "i", "n", "g", " ", "s", "u", "m", "m", "a", "r", "y", ":", " ">>
\* str(IndexError) of result[0] on an empty list
IndexErrorMsg == <<"l", "i", "s", "t", " ", "i", "n", "d", "e", "x", " ", "o", "u", "t", " ", "o", "f", " ", "r", "a", "n", "g", "e">>
\* str(KeyError('summary_text'))
KeyErrorMsg == <<"'", "s", "u", "m", "m", "a", "r", "y", "_", "t", "e", "x", "t", "'">>
\* the message of an exception raised inside the pipeline
RuntimeErrorMsg == <<"o", "u", "t", " ", "o", "f", " ", "m", "e", "m", "o", "r", "y">>

\* ------------------------------------------------------------------ inputs
Impls == {"create_summary", "summarize_text"}

Letters == <<"a", "b", "c", "d", "e">>

\* A text of n words: the first word has firstLen characters, every other
\* word has one; style "plain" separates words by one space, style "messy"
\* by a space and a newline, with a leading tab and a trailing space.
MkText(n, firstLen, style) ==
  LET lead  == IF style = "messy" THEN 1 ELSE 0
      sepW  == IF style = "messy" THEN 2 ELSE 1
      trail == IF style = "messy" THEN 1 ELSE 0
      body  == IF n = 0 THEN 0 ELSE firstLen + (n - 1) * (sepW + 1)
      total == lead + body + trail
      Letter(w) == Letters[(w % Len(Letters)) + 1]
      At(i) ==
        IF i <= lead THEN "\t"
        ELSE IF i > lead + body THEN " "
        ELSE IF i <= lead + firstLen THEN Letter(1)
        ELSE LET off == i - lead - firstLen - 1
                 pos == off % (sepW + 1)
             IN  IF pos = 0 THEN " "
                 ELSE IF pos < sepW THEN "\n"
                 ELSE Letter(2 + (off \div (sepW + 1)))
  IN  [i \in 1..total |-> At(i)] \o << >>

Styles == {"plain", "messy"}

\* short texts around the 100-character threshold
SmallTexts ==
  {MkText(n, l, st) : n \in 0..MaxDelta,
                      l \in {1, min_text_len - 1, min_text_len},
                      st \in Styles}

\* long texts around the multiples of the window size
LargeTexts ==
  {MkText(k * max_input_length + d, 1, st) :
      k \in 1..MaxFull, d \in (0 - MaxDelta)..MaxDelta, st \in Styles}

Texts == SmallTexts \cup LargeTexts

\* (max_length, min_length) pairs: the defaults and a small pair whose
\* per-chunk share floors to 0
Budgets == {<<default_max_length, default_min_length>>, <<5, 2>>}

\* what the pipeline can hand back for one call
Outputs == {<<"A">>, <<"B", " ", "c">>}

PipelineResults ==
  {<<[summary_text |-> o]>> : o \in Outputs}
    \cup {<< >>} \cup {<<[generated_text |-> o]>> : o \in Outputs}

\* ------------------------------------------------------------------- state
VARIABLES
  pc,          \* "idle", "calling" (a pipeline call is outstanding), "done"
  impl,        \* the function invoked: "create_summary" or "summarize_text"
  text,        \* its argument text
  max_length,  \* its argument max_length
  min_length,  \* its argument min_length
  branch,      \* "none", "chunked" (the if branch) or "single" (the else branch)
  chunks,      \* the local list chunks
  summaries,   \* the local list summaries
  calls,       \* the pipeline calls made so far, with their arguments
  replies,     \* what the pipeline answered to each of them
  outcome      \* how the invocation ended: a returned str or a raised exception

chunkVars ==
  <<pc, impl, text, max_length, min_length, branch, chunks, summaries,
    calls, replies, outcome>>

\* the stream handlers of the Ollama clients
VARIABLES
  handler,        \* "_handle_stream" or "_handle_stream_ui"
  s_pc,           \* "idle", "reading" (inside the for loop), "done"
  received,       \* the lines response.iter_lines() yields, all of them
  lines,          \* those not yet iterated over
  full_response,  \* the local full_response
  placeholder,    \* what response_placeholder shows (_handle_stream_ui)
  s_outcome       \* how the handler ended

streamVars ==
  <<handler, s_pc, received, lines, full_response, placeholder, s_outcome>>

\* the four applications: what the user sees and what the session holds
VARIABLES
  app,              \* the application that is running
  max_slider,       \* the "Max Summary Length" slider (pipeline-backed apps)
  min_slider,       \* the "Min Summary Length" slider (pipeline-backed apps)
  app_text,         \* the text the last user event worked on
  shown,            \* what the handler of the last user event displayed
  backend_calls,    \* the backend calls it made
  ratio,            \* the compression ratio it computed
  summary_history,  \* st.session_state.summary_history (streamlit_enhanced)
  history_set,      \* 'summary_history' in st.session_state
  saves,            \* every entry saved since the history was last empty
  clock             \* datetime.now(), in seconds

appVars ==
  <<app, max_slider, min_slider, app_text, shown, backend_calls, ratio,
    summary_history, history_set, saves, clock>>

vars == <<chunkVars, streamVars, appVars>>

NoOutcome == [kind |-> "none"]
Returned(s) == [kind |-> "return", value |-> s]
Raised(e, m) == [kind |-> "raise", exc |-> e, msg |-> m]

\* the pipeline's answer to one call: the list it returned, or an exception
ResultReply(r) == [kind |-> "result", result |-> r]
RaiseReply == [kind |-> "raise", result |-> << >>]

ChunkInit ==
  /\ pc = "idle"
  /\ impl = "create_summary"
  /\ text = << >>
  /\ max_length = default_max_length
  /\ min_length = default_min_length
  /\ branch = "none"
  /\ chunks = << >>
  /\ summaries = << >>
  /\ calls = << >>
  /\ replies = << >>
  /\ outcome = NoOutcome

StreamInit ==
  /\ handler = "_handle_stream"
  /\ s_pc = "idle"
  /\ received = << >>
  /\ lines = << >>
  /\ full_response = << >>
  /\ placeholder = << >>
  /\ s_outcome = NoOutcome

\* nothing displayed yet
Blank == [widget |-> "none", text |-> << >>]
NoRatio == [computed |-> FALSE, num |-> 0, den |-> 0]

\* a fresh session of application a: sliders at their value= defaults,
\* nothing displayed, no summary_history key in st.session_state
Fresh(a) ==
  /\ app = a
  /\ max_slider = default_max_length
  /\ min_slider = default_min_length
  /\ app_text = << >>
  /\ shown = Blank
  /\ backend_calls = << >>
  /\ ratio = NoRatio
  /\ summary_history = << >>
  /\ history_set = FALSE
  /\ saves = << >>

AppInit == Fresh("app_cloud") /\ clock = 0

Init == ChunkInit /\ StreamInit /\ AppInit

\* summarizer(t, max_length=mx, min_length=mn)
PipelineCall(t, mx, mn) == [text |-> t, max_length |-> mx, min_length |-> mn]

\* a bug: ceiling instead of floor division
ChunkCallCeil(chs, c, mx, mn) ==
  PipelineCall(chs[c], (mx + Len(chs) - 1) \div Len(chs),
                       (mn + Len(chs) - 1) \div Len(chs))

\* a bug: min_length is passed on undivided
ChunkCallMinUndivided(chs, c, mx, mn) ==
  PipelineCall(chs[c], mx \div Len(chs), mn)

\* a bug: the per-chunk budget is clamped to at least 1
ChunkCallClamped(chs, c, mx, mn) ==
  PipelineCall(chs[c],
               IF mx \div Len(chs) < 1 THEN 1 ELSE mx \div Len(chs),
               IF mn \div Len(chs) < 1 THEN 1 ELSE mn \div Len(chs))

\* summarizer(chunk, max_length=max_length//len(chunks), min_length=min_length//len(chunks))
ChunkCall(chs, c, mx, mn) ==
  PipelineCall(chs[c], mx \div Len(chs), mn \div Len(chs))

\* a bug: on failure the summaries collected so far are returned
FailPartial(i, e, m) == Returned(JoinSpace(summaries))

\* a bug: no function catches the exception
FailAlwaysRaises(i, e, m) == Raised(e, m)

\* an exception leaves the function body: summarize_text catches it and
\* returns the error string, create_summary lets it propagate
Fail(i, e, m) ==
  IF i = "summarize_text" THEN Returned(ERROR_PREFIX \o m) ELSE Raised(e, m)

\* a bug: result[0].get('summary_text', ''), a missing field reads as ''
SummaryTextLenient(result) ==
  IF Len(result) = 0 THEN Raised("IndexError", IndexErrorMsg)
  ELSE IF "summary_text" \notin DOMAIN result[1] THEN Returned(<< >>)
  ELSE Returned(result[1].summary_text)

\* result[0]['summary_text']
SummaryText(result) ==
  IF Len(result) = 0 THEN Raised("IndexError", IndexErrorMsg)
  ELSE IF "summary_text" \notin DOMAIN result[1] THEN Raised("KeyError", KeyErrorMsg)
  ELSE Returned(result[1].summary_text)

\* a bug: <= 100 instead of < 100
ValidateInclusive(i, t) ==
  IF i # "summarize_text" THEN NoOutcome
  ELSE IF Strip(t) = << >> THEN Returned(MSG_EMPTY)
  ELSE IF Len(Strip(t)) <= min_text_len THEN Returned(MSG_SHORT)
  ELSE NoOutcome

\* the validation at the top of summarize_text; create_summary has none
Validate(i, t) ==
  IF i # "summarize_text" THEN NoOutcome
  ELSE IF Strip(t) = << >> THEN Returned(MSG_EMPTY)
  ELSE IF Len(Strip(t)) < min_text_len THEN Returned(MSG_SHORT)
  ELSE NoOutcome

\* a bug: >= instead of >
NeedsChunkingAtLimit(words) == Len(words) >= max_input_length

\* if len(text.split()) > max_input_length
NeedsChunking(words) == Len(words) > max_input_length

\* a bug: summaries.insert(0, ...)
CollectFront(sums, s) == <<s>> \o sums

\* summaries.append(...)
Collect(sums, s) == Append(sums, s)

\* a bug: the loop stops one chunk early
MoreChunksButLast(sums, chs) == Len(sums) + 1 < Len(chs)

\* for chunk in chunks: is there another chunk after those summarized
MoreChunks(sums, chs) == Len(sums) < Len(chs)

\* the function is entered: validation, the split into chunks, and the first
\* pipeline call
Invoke(i, t, mx, mn) ==
  /\ pc = "idle"
  /\ impl' = i
  /\ text' = t
  /\ max_length' = mx
  /\ min_length' = mn
  /\ summaries' = << >>
  /\ replies' = << >>
  /\ LET v == Validate(i, t)
         words == Split(t)
     IN  IF v # NoOutcome
         THEN /\ pc' = "done"
              /\ outcome' = v
              /\ branch' = "none"
              /\ chunks' = << >>
              /\ calls' = << >>
         ELSE IF NeedsChunking(words)
         THEN LET chs == MakeChunks(words)
              IN  /\ branch' = "chunked"
                  /\ chunks' = chs
                  /\ IF MoreChunks(<< >>, chs)
                     THEN /\ pc' = "calling"
                          /\ outcome' = NoOutcome
                          /\ calls' = <<ChunkCall(chs, 1, mx, mn)>>
                     ELSE /\ pc' = "done"
                          /\ outcome' = Returned(JoinSpace(<< >>))
                          /\ calls' = << >>
         ELSE /\ branch' = "single"
              /\ chunks' = << >>
              /\ pc' = "calling"
              /\ outcome' = NoOutcome
              /\ calls' = <<PipelineCall(t, mx, mn)>>
  /\ UNCHANGED <<streamVars, appVars>>

\* the outstanding pipeline call raises
PipelineRaises ==
  /\ pc = "calling"
  /\ pc' = "done"
  /\ replies' = Append(replies, RaiseReply)
  /\ outcome' = Fail(impl, "RuntimeError", RuntimeErrorMsg)
  /\ UNCHANGED <<impl, text, max_length, min_length, branch, chunks, summaries, calls>>
  /\ UNCHANGED <<streamVars, appVars>>

\* the outstanding pipeline call returns result; the function goes on to the
\* next chunk, or returns
PipelineReturns(result) ==
  /\ pc = "calling"
  /\ replies' = Append(replies, ResultReply(result))
  /\ LET s == SummaryText(result)
     IN  IF s.kind = "raise"
         THEN /\ pc' = "done"
              /\ outcome' = Fail(impl, s.exc, s.msg)
              /\ UNCHANGED <<summaries, calls>>
         ELSE IF branch = "single"
         THEN /\ pc' = "done"
              /\ outcome' = s
              /\ UNCHANGED <<summaries, calls>>
         ELSE LET sums == Collect(summaries, s.value)
              IN  /\ summaries' = sums
                  /\ IF MoreChunks(sums, chunks)
                     THEN /\ pc' = "calling"
                          /\ outcome' = NoOutcome
                          /\ calls' = Append(calls,
                                ChunkCall(chunks, Len(sums) + 1, max_length, min_length))
                     ELSE /\ pc' = "done"
                          /\ outcome' = Returned(JoinSpace(sums))
                          /\ UNCHANGED calls
  /\ UNCHANGED <<impl, text, max_length, min_length, branch, chunks>>
  /\ UNCHANGED <<streamVars, appVars>>

\* the caller has the outcome; the function's locals are gone
Finish ==
  /\ pc = "done"
  /\ pc' = "idle"
  /\ impl' = "create_summary"
  /\ text' = << >>
  /\ max_length' = default_max_length
  /\ min_length' = default_min_length
  /\ branch' = "none"
  /\ chunks' = << >>
  /\ summaries' = << >>
  /\ calls' = << >>
  /\ replies' = << >>
  /\ outcome' = NoOutcome
  /\ UNCHANGED <<streamVars, appVars>>

Next ==
  \/ \E i \in Impls, t \in Texts, b \in Budgets : Invoke(i, t, b[1], b[2])
  \/ PipelineRaises
  \/ \E r \in PipelineResults : PipelineReturns(r)
  \/ Finish

Spec == Init /\ [][Next]_vars

\* the program goes on: an outstanding pipeline call is answered, a finished
\* invocation returns to its caller, and the caller invokes again
FairSpec == Spec /\ WF_vars(Next)

\* The for loop of the chunked branch run to its end against the replies
\* reps, reps[k] answering the k-th pipeline call: the calls made and the
\* outcome (none while a call is still unanswered).
RECURSIVE SummarizeLoop(_, _, _, _, _, _, _)
SummarizeLoop(i, chs, sums, made, mx, mn, reps) ==
  IF ~MoreChunks(sums, chs)
  THEN [calls |-> made, outcome |-> Returned(JoinSpace(sums))]
  ELSE LET now == Append(made, ChunkCall(chs, Len(sums) + 1, mx, mn))
       IN  IF Len(now) > Len(reps)
           THEN [calls |-> now, outcome |-> NoOutcome]
           ELSE IF reps[Len(now)].kind = "raise"
           THEN [calls |-> now, outcome |-> Fail(i, "RuntimeError", RuntimeErrorMsg)]
           ELSE LET s == SummaryText(reps[Len(now)].result)
                IN  IF s.kind = "raise"
                    THEN [calls |-> now, outcome |-> Fail(i, s.exc, s.msg)]
                    ELSE SummarizeLoop(i, chs, Collect(sums, s.value), now, mx, mn, reps)

\* create_summary / summarize_text as a whole, against the replies reps
Summarize(i, t, mx, mn, reps) ==
  LET v     == Validate(i, t)
      words == Split(t)
  IN  IF v # NoOutcome THEN [calls |-> << >>, outcome |-> v]
      ELSE IF NeedsChunking(words)
      THEN SummarizeLoop(i, MakeChunks(words), << >>, << >>, mx, mn, reps)
      ELSE LET now == <<PipelineCall(t, mx, mn)>>
           IN  IF Len(reps) = 0 THEN [calls |-> now, outcome |-> NoOutcome]
               ELSE IF reps[1].kind = "raise"
               THEN [calls |-> now, outcome |-> Fail(i, "RuntimeError", RuntimeErrorMsg)]
               ELSE LET s == SummaryText(reps[1].result)
                    IN  IF s.kind = "raise"
                        THEN [calls |-> now, outcome |-> Fail(i, s.exc, s.msg)]
                        ELSE [calls |-> now, outcome |-> s]

\* ---------------------------------------------------------- stream handlers
\* The lines a streamed response can hold, as the bytes iter_lines() yields:
\* an empty line, two objects with a response fragment, an object without
\* one, an object whose response is null, a bare number, a truncated object,
\* text that is not JSON, and a byte that is not UTF-8.
StreamLines ==
  { "",
    "{\"response\": \"He\"}",
    "{\"response\": \"y\"}",
    "{\"done\": true}",
    "{\"response\": null}",
    "5",
    "{\"response\": \"He\"",
    "not json",
    "\\xff" }

JsonStr(chars) == [type |-> "str", str |-> chars]
JsonNull == [type |-> "null"]
JsonBool == [type |-> "bool"]
JsonInt == [type |-> "int"]
JsonDict(d) == [type |-> "dict", items |-> d]

\* json.loads(line) on the lines above
JsonLoads(line) ==
  CASE line = "{\"response\": \"He\"}" ->
         Returned(JsonDict([response |-> JsonStr(<<"H", "e">>)]))
    [] line = "{\"response\": \"y\"}" ->
         Returned(JsonDict([response |-> JsonStr(<<"y">>)]))
    [] line = "{\"done\": true}" ->
         Returned(JsonDict([done |-> JsonBool]))
    [] line = "{\"response\": null}" ->
         Returned(JsonDict([response |-> JsonNull]))
    [] line = "5" -> Returned(JsonInt)
    [] line = "\\xff" -> Raised("UnicodeDecodeError", << >>)
    [] OTHER -> Raised("JSONDecodeError", << >>)

\* One iteration of the for loop over a line: the new full_response, or the
\* exception that leaves the handler.
\*   if line:
\*       try: json_response = json.loads(line)
\*            if "response" in json_response: full_response += json_response["response"]
\*       except json.JSONDecodeError: continue
HandleLine(full, line) ==
  IF line = "" THEN Returned(full)
  ELSE LET parsed == JsonLoads(line)
       IN  IF parsed.kind = "raise"
           THEN IF parsed.exc = "JSONDecodeError" THEN Returned(full) ELSE parsed
           ELSE IF parsed.value.type # "dict"
           THEN Raised("TypeError", << >>)
           ELSE IF "response" \notin DOMAIN parsed.value.items
           THEN Returned(full)
           ELSE IF parsed.value.items.response.type # "str"
           THEN Raised("TypeError", << >>)
           ELSE Returned(full \o parsed.value.items.response.str)

\* every sequence of at most n stream lines
RECURSIVE LineSeqs(_)
LineSeqs(n) ==
  IF n = 0 THEN {<< >>}
  ELSE LineSeqs(n - 1)
         \cup {Append(ls, l) : ls \in LineSeqs(n - 1), l \in StreamLines}

Handlers == {"_handle_stream", "_handle_stream_ui"}

\* the handler is called with a response
HandleStream(h, ls) ==
  /\ s_pc = "idle"
  /\ handler' = h
  /\ s_pc' = "reading"
  /\ received' = ls
  /\ lines' = ls
  /\ full_response' = << >>
  /\ placeholder' = << >>
  /\ s_outcome' = NoOutcome
  /\ UNCHANGED <<chunkVars, appVars>>

\* the for loop takes the next line
NextLine ==
  /\ s_pc = "reading"
  /\ lines # << >>
  /\ LET r == HandleLine(full_response, Head(lines))
     IN  IF r.kind = "raise"
         THEN /\ s_pc' = "done"
              /\ s_outcome' = r
              /\ UNCHANGED <<full_response, placeholder>>
         ELSE /\ s_pc' = "reading"
              /\ s_outcome' = NoOutcome
              /\ full_response' = r.value
              /\ placeholder' =
                   IF handler = "_handle_stream_ui" /\ r.value # full_response
                   THEN r.value ELSE placeholder
  /\ lines' = Tail(lines)
  /\ UNCHANGED <<handler, received>>
  /\ UNCHANGED <<chunkVars, appVars>>

\* the for loop is over: return full_response
EndOfStream ==
  /\ s_pc = "reading"
  /\ lines = << >>
  /\ s_pc' = "done"
  /\ s_outcome' = Returned(full_response)
  /\ placeholder' = << >>
  /\ UNCHANGED <<handler, received, lines, full_response>>
  /\ UNCHANGED <<chunkVars, appVars>>

\* the caller has the outcome
StreamFinish ==
  /\ s_pc = "done"
  /\ handler' = "_handle_stream"
  /\ s_pc' = "idle"
  /\ received' = << >>
  /\ lines' = << >>
  /\ full_response' = << >>
  /\ placeholder' = << >>
  /\ s_outcome' = NoOutcome
  /\ UNCHANGED <<chunkVars, appVars>>

StreamNext ==
  \/ \E h \in Handlers, ls \in LineSeqs(MaxLines) : HandleStream(h, ls)
  \/ NextLine
  \/ EndOfStream
  \/ StreamFinish

StreamSpec == Init /\ [][StreamNext]_vars

\* =============================================================== properties
Max(a, b) == IF a > b THEN a ELSE b

\* ceil(n / w) for n >= 0, w > 0
Ceil(n, w) == (n + w - 1) \div w

WordCount == Len(Split(text))

\* the pipeline returned a list whose first element has a summary_text
ReplyOk(r) ==
  /\ r.kind = "result"
  /\ Len(r.result) > 0
  /\ "summary_text" \in DOMAIN r.result[1]

ReplyText(r) == r.result[1].summary_text

\* no pipeline call of this invocation failed
AllOk == \A k \in 1..Len(replies) : ReplyOk(replies[k])

\* the text passes the validation of the function invoked
PassesValidation ==
  impl = "summarize_text" => Len(Strip(text)) >= min_text_len

\* the concatenation of a list of lists
RECURSIVE Flatten(_)
Flatten(lists) ==
  IF lists = << >> THEN << >> ELSE Head(lists) \o Flatten(Tail(lists))

\* the strings of a list, one space between neighbours
RECURSIVE SpaceJoined(_)
SpaceJoined(list) ==
  IF list = << >> THEN << >>
  ELSE IF Len(list) = 1 THEN list[1]
  ELSE list[1] \o <<" ">> \o SpaceJoined(Tail(list))

IsPrefix(p, s) == Len(p) <= Len(s) /\ SubSeq(s, 1, Len(p)) = p

Occurs(p, s) ==
  \E i \in 1..(Len(s) - Len(p) + 1) : SubSeq(s, i, i + Len(p) - 1) = p

\* the single call of the else branch and its unchanged result
SingleCallIdentity ==
  /\ Len(calls) = 1
  /\ calls[1].text = text
  /\ calls[1].max_length = max_length
  /\ calls[1].min_length = min_length
  /\ Len(replies) = 1
  /\ outcome.kind = "return"
  /\ outcome.value = ReplyText(replies[1])

\* C1 (as stated): for every text of at most max_input_length words, a
\* finished invocation whose pipeline call did not fail made exactly one
\* call, with the full text and the original budget, and returned the
\* pipeline's summary unchanged.
C1_Original ==
  (pc = "done" /\ AllOk /\ WordCount <= max_input_length) => SingleCallIdentity

\* C1 (amended): the same, for the texts that pass the validation of the
\* function invoked (summarize_text answers a text of fewer than 100
\* stripped characters without calling the pipeline).
C1_SingleChunkIdentity ==
  (pc = "done" /\ AllOk /\ WordCount <= max_input_length /\ PassesValidation)
    => SingleCallIdentity

C1_Witness ==
  /\ pc = "done" /\ AllOk
  /\ impl = "summarize_text"
  /\ WordCount = max_input_length
  /\ text[1] \in Whitespace
  /\ Len(calls) = 1
  /\ outcome.kind = "return"

\* C2: for a text of more than max_input_length words, the chunks handed to
\* the pipeline, each split on whitespace and concatenated in call order,
\* are exactly the words of the text.
C2_PartitionCompleteness ==
  (pc = "done" /\ AllOk /\ WordCount > max_input_length)
    => Flatten([k \in 1..Len(calls) |-> Split(calls[k].text)]) = Split(text)

C2_Witness ==
  /\ pc = "done" /\ AllOk
  /\ WordCount > 2 * max_input_length
  /\ text[1] \in Whitespace
  /\ Len(calls) = 3

\* C3: for a text of N > max_input_length words there are
\* ceil(N / max_input_length) chunks, every chunk but the last has exactly
\* max_input_length words and the last has between 1 and max_input_length.
C3_ChunkCount ==
  (pc # "idle" /\ WordCount > max_input_length)
    => /\ branch = "chunked"
       /\ Len(chunks) = Ceil(WordCount, max_input_length)
       /\ \A c \in 1..Len(chunks) :
            LET size == Len(Split(chunks[c]))
            IN  IF c < Len(chunks)
                THEN size = max_input_length
                ELSE size >= 1 /\ size <= max_input_length

C3_Witness ==
  /\ branch = "chunked"
  /\ WordCount = 2 * max_input_length
  /\ Len(chunks) = 2
  /\ Len(Split(chunks[2])) = max_input_length

\* the number of pipeline calls the contract promises
PromisedCalls == Max(1, Ceil(WordCount, max_input_length))

\* C4 (as stated): a finished invocation none of whose pipeline calls failed
\* made exactly max(1, ceil(N / max_input_length)) calls.
C4_Original == (pc = "done" /\ AllOk) => Len(calls) = PromisedCalls

\* C4 (amended): it made that many calls when the text passes the validation
\* of the function invoked, and none when summarize_text rejects the text.
C4_CallCount ==
  (pc = "done" /\ AllOk)
    => Len(calls) = IF PassesValidation THEN PromisedCalls ELSE 0

C4_Witness ==
  /\ pc = "done" /\ AllOk
  /\ impl = "create_summary"
  /\ WordCount = 0
  /\ Len(calls) = 1

\* C5: the summary of a multi-chunk text is the summaries the pipeline gave
\* for the chunks, in chunk order, with one space between neighbours and
\* nothing else.
C5_OrderPreservation ==
  (pc = "done" /\ AllOk /\ branch = "chunked")
    => /\ outcome.kind = "return"
       /\ outcome.value
            = SpaceJoined([k \in 1..Len(replies) |-> ReplyText(replies[k])])

C5_Witness ==
  /\ pc = "done" /\ AllOk /\ branch = "chunked"
  /\ Len(replies) = 3
  /\ ReplyText(replies[1]) # ReplyText(replies[2])
  /\ outcome.kind = "return"

\* C6: when the pipeline call for a chunk of a multi-chunk text fails, the
\* invocation ends in failure (create_summary raises, summarize_text returns
\* the error string) and no summary of an earlier chunk occurs in what is
\* returned.
C6_FailurePropagation ==
  (pc = "done" /\ branch = "chunked" /\ ~AllOk)
    => IF impl = "create_summary"
       THEN outcome.kind = "raise"
       ELSE /\ outcome.kind = "return"
            /\ outcome.value \in
                 {ERROR_PREFIX \o m : m \in {RuntimeErrorMsg, IndexErrorMsg, KeyErrorMsg}}
            /\ \A k \in 1..Len(replies) :
                 ReplyOk(replies[k]) => ~Occurs(ReplyText(replies[k]), outcome.value)

C6_Witness ==
  /\ pc = "done" /\ branch = "chunked"
  /\ impl = "summarize_text"
  /\ Len(replies) = 3
  /\ ReplyOk(replies[1]) /\ ReplyOk(replies[2]) /\ ~ReplyOk(replies[3])
  /\ outcome.kind = "return"

\* C8: in the multi-chunk path no pipeline call receives more than
\* max_input_length words.
C8_PerCallInputBound ==
  branch = "chunked"
    => \A k \in 1..Len(calls) : Len(Split(calls[k].text)) <= max_input_length

C8_Witness ==
  /\ branch = "chunked"
  /\ Len(calls) = 3
  /\ Len(Split(calls[2].text)) = max_input_length

\* q is the floor of a / n
IsFloorDiv(q, a, n) == q * n <= a /\ a < (q + 1) * n

\* C9: every call of the multi-chunk path gets the budget
\* (max_length div chunkCount, min_length div chunkCount), floored and
\* unclamped; a text of 2050 words with (150, 50) gives 3 chunks, each
\* called with (50, 16).
C9_PerChunkBudget ==
  branch = "chunked"
    => /\ \A k \in 1..Len(calls) :
            /\ IsFloorDiv(calls[k].max_length, max_length, Len(chunks))
            /\ IsFloorDiv(calls[k].min_length, min_length, Len(chunks))
       /\ (WordCount = 2050 /\ max_length = 150 /\ min_length = 50)
            => /\ Len(chunks) = 3
               /\ \A k \in 1..Len(calls) :
                    calls[k].max_length = 50 /\ calls[k].min_length = 16

C9_Witness ==
  /\ branch = "chunked"
  /\ WordCount = 2050 /\ max_length = 150 /\ min_length = 50
  /\ Len(calls) = 3
  /\ calls[3].max_length = 50 /\ calls[3].min_length = 16

\* C10 (as stated): every invocation ends by returning a string, whatever
\* the pipeline does.
C10_Original == pc = "done" => outcome.kind = "return"

\* C10 (amended): summarize_text always ends by returning a string, which is
\* the error message when a pipeline call failed; create_summary returns a
\* string when no pipeline call failed and raises otherwise.
C10_ResultString ==
  pc = "done"
    => IF impl = "summarize_text"
       THEN /\ outcome.kind = "return"
            /\ ~AllOk => IsPrefix(ERROR_PREFIX, outcome.value)
       ELSE (outcome.kind = "return" <=> AllOk)
            /\ (outcome.kind = "raise" <=> ~AllOk)

C10_Witness ==
  /\ pc = "done"
  /\ impl = "summarize_text"
  /\ Len(replies) = 2
  /\ replies[2].kind = "result" /\ ~ReplyOk(replies[2])
  /\ outcome.kind = "return"
  /\ IsPrefix(ERROR_PREFIX, outcome.value)

\* ---------------------------------------------------------------- streams
\* json.loads rejects the line
NotValidJson(line) == JsonLoads(line).kind = "raise"

\* the line is a JSON object with a string under "response"
HasFragment(line) ==
  /\ JsonLoads(line).kind = "return"
  /\ JsonLoads(line).value.type = "dict"
  /\ "response" \in DOMAIN JsonLoads(line).value.items
  /\ JsonLoads(line).value.items.response.type = "str"

Fragment(line) == JsonLoads(line).value.items.response.str

\* the fragments of the lines that have one, in receipt order
RECURSIVE Fragments(_)
Fragments(ls) ==
  IF ls = << >> THEN << >>
  ELSE (IF HasFragment(Head(ls)) THEN Fragment(Head(ls)) ELSE << >>)
         \o Fragments(Tail(ls))

\* C7: for a streamed response whose lines are objects carrying a response
\* fragment or are not valid JSON, the handler returns the fragments of the
\* valid lines concatenated in receipt order; a malformed line neither
\* aborts the read nor loses a fragment.
C7_MalformedLineTolerance ==
  (/\ s_pc = "done"
   /\ \A k \in 1..Len(received) :
        NotValidJson(received[k]) \/ HasFragment(received[k]))
    => s_outcome = Returned(Fragments(received))

\* ------------------------------------------------------- the applications
Apps == {"app_cloud", "gradio_version", "ai_summarizer_app", "streamlit_enhanced"}
PipelineApps == {"app_cloud", "gradio_version"}

\* slider("Max Summary Length", 50, 300, 150, step=10)
MaxSliderValues == {50 + 10 * k : k \in 0..25}
\* slider("Min Summary Length", 10, 100, 50, step=5)
MinSliderValues == {10 + 5 * k : k \in 0..18}

\* if min_length >= max_length: min_length = max_length - 10
AdjustMin(mx, mn) == IF mn >= mx THEN mx - 10 ELSE mn

\* "Failed to generate summary. Please check your Ollama connection."
MSG_FAILED == <<"F", "a", "i", "l", "e", "d", " ", "t", "o", " ", "g", "e", "n", "e", "r", "a", "t", "e", " ", "s", "u", "m", "m", "a", "r", "y", ".", " ", "P", "l", "e", "a", "s", "e", " ", "c", "h", "e", "c", "k", " ", "y", "o", "u", "r", " ", "O", "l", "l", "a", "m", "a", " ", "c", "o", "n", "n", "e", "c", "t", "i", "o", "n", ".">>
\* str(ZeroDivisionError)
ZeroDivisionMsg == <<"d", "i", "v", "i", "s", "i", "o", "n", " ", "b", "y", " ", "z", "e", "r", "o">>
\* "Error" and "Please", the prefixes get_statistics looks for
ErrorWord == <<"E", "r", "r", "o", "r">>
PleaseWord == <<"P", "l", "e", "a", "s", "e">>

Warning(m) == [widget |-> "warning", text |-> m]
ErrorBox(m) == [widget |-> "error", text |-> m]
SummaryBox(m) == [widget |-> "summary", text |-> m]
\* an exception nobody catches: the framework reports it
Uncaught(e) == [widget |-> "exception", text |-> <<e>>]

\* (num / den) * 100: Python raises ZeroDivisionError for den = 0
Ratio(num, den) ==
  IF den = 0 THEN Raised("ZeroDivisionError", ZeroDivisionMsg)
  ELSE Returned([computed |-> TRUE, num |-> num, den |-> den])

\* s.startswith(p)
StartsWith(s, p) == Len(p) <= Len(s) /\ SubSeq(s, 1, Len(p)) = p

\* a bug: no validation before create_summary
AppCloudValidateNothing(t) ==
  NoOutcome

\* the if / elif in front of create_summary in app_cloud.main
AppCloudValidate(t) ==
  IF Strip(t) = << >> THEN Returned(MSG_EMPTY)
  ELSE IF Len(Strip(t)) < min_text_len THEN Returned(MSG_SHORT)
  ELSE NoOutcome

\* a bug: only the messages summarize_text itself produces count as
\* non-summaries
GetStatisticsExactMessages(original_text, summary_text) ==
  IF \/ summary_text = << >>
     \/ StartsWith(summary_text, ERROR_PREFIX)
     \/ summary_text \in {MSG_EMPTY, MSG_SHORT}
  THEN Returned(NoRatio)
  ELSE Ratio(Len(Split(summary_text)), Len(Split(original_text)))

\* a bug: a validation message is taken for a summary
GetStatisticsOfMessages(original_text, summary_text) ==
  IF summary_text = << >> \/ StartsWith(summary_text, ErrorWord)
  THEN Returned(NoRatio)
  ELSE Ratio(Len(Split(summary_text)), Len(Split(original_text)))

\* get_statistics(original_text, summary_text): no ratio (three empty
\* strings) for what is not a summary, else the word-based ratio
GetStatistics(original_text, summary_text) ==
  IF \/ summary_text = << >>
     \/ StartsWith(summary_text, ErrorWord)
     \/ StartsWith(summary_text, PleaseWord)
  THEN Returned(NoRatio)
  ELSE Ratio(Len(Split(summary_text)), Len(Split(original_text)))

\* what OllamaClient.generate hands back: None after a RequestException, the
\* response string (possibly ''), or an exception it does not catch
OllamaNone == [kind |-> "None", value |-> << >>]
OllamaStr(v) == [kind |-> "str", value |-> v]
OllamaRaises == [kind |-> "raise", value |-> << >>]

\* a bug: `if summary is not None`
TruthyNotNone(r) ==
  r.kind = "str"

\* `if summary:`
Truthy(r) ==
  r.kind = "str" /\ r.value # << >>

\* ---- the history of streamlit_enhanced
\* summary_history[:10]
history_cap == 10
\* text[:200] + "..." if len(text) > 200 else text
preview_len == 200

\* the dict session_data
SessionData(t, summary, model, type, now) ==
  [timestamp       |-> now,
   original_text   |-> IF Len(t) > preview_len
                       THEN SubSeq(t, 1, preview_len) \o <<".", ".", ".">>
                       ELSE t,
   summary         |-> summary,
   model           |-> model,
   type            |-> type,
   original_length |-> Len(t),
   summary_length  |-> Len(summary)]

\* a bug: append instead of insert(0, ...)
SaveSummarySessionAppend(history, entry) ==
  SubSeq(Append(history, entry), 1, Min(history_cap, Len(history) + 1))

\* a bug: the cap is applied before the insert
SaveSummarySessionCapFirst(history, entry) ==
  <<entry>> \o SubSeq(history, 1, Min(history_cap, Len(history)))

\* summary_history.insert(0, session_data); summary_history[:10]
SaveSummarySession(history, entry) ==
  SubSeq(<<entry>> \o history, 1, Min(history_cap, Len(history) + 1))

\* ---- inputs of the applications
\* the texts a user can submit: the short ones and one of three chunks
AppTexts == SmallTexts \cup {MkText(2 * max_input_length + 2, 1, "plain")}

\* what the pipeline answers to the calls of one button click, call by call
ReplyPlans ==
  LET n    == MaxFull + 2
      okA  == ResultReply(<<[summary_text |-> <<"A">>]>>)
      okBc == ResultReply(<<[summary_text |-> <<"B", " ", "c">>]>>)
      none == ResultReply(<<[summary_text |-> << >>]>>)
      okPl == ResultReply(<<[summary_text |-> PleaseWord \o <<" ", "c">>]>>)
  IN  {[k \in 1..n |-> IF k % 2 = 1 THEN okA ELSE okBc] \o << >>,
       [k \in 1..n |-> IF k % 2 = 1 THEN okPl ELSE okBc] \o << >>,
       [k \in 1..n |-> none] \o << >>,
       [k \in 1..n |-> RaiseReply] \o << >>,
       [k \in 1..n |-> IF k = 1 THEN okBc ELSE RaiseReply] \o << >>,
       [k \in 1..n |-> ResultReply(<< >>)] \o << >>}

\* the texts submitted to the Ollama apps: empty, blank, and one longer than
\* the history's preview
OllamaTexts == {<< >>, <<" ", "\n">>, MkText(1, preview_len + 1, "plain")}

GenerateResults ==
  {OllamaNone, OllamaStr(<< >>), OllamaStr(<<"B", " ", "c">>), OllamaRaises}

ModelNames == {"llama3.2"}
SummaryTypes == {"general"}

\* ---- actions of the applications
\* the application a is started: a fresh session
Launch(a) ==
  /\ app' = a
  /\ max_slider' = default_max_length
  /\ min_slider' = default_min_length
  /\ app_text' = << >>
  /\ shown' = Blank
  /\ backend_calls' = << >>
  /\ ratio' = NoRatio
  /\ summary_history' = << >>
  /\ history_set' = FALSE
  /\ saves' = << >>
  /\ UNCHANGED clock
  /\ UNCHANGED <<chunkVars, streamVars>>

\* a second passes
Tick ==
  /\ clock < MaxClock
  /\ clock' = clock + 1
  /\ UNCHANGED <<app, max_slider, min_slider, app_text, shown, backend_calls,
                 ratio, summary_history, history_set, saves>>
  /\ UNCHANGED <<chunkVars, streamVars>>

\* the user moves the max slider: an event of its own, in which no button
\* handler runs (Streamlit reruns the script with the button not pressed)
MoveMax(v) ==
  /\ app \in PipelineApps
  /\ v # max_slider
  /\ max_slider' = v
  /\ app_text' = << >> /\ shown' = Blank /\ backend_calls' = << >>
  /\ ratio' = NoRatio
  /\ UNCHANGED <<app, min_slider, summary_history, history_set, saves, clock>>
  /\ UNCHANGED <<chunkVars, streamVars>>

MoveMin(v) ==
  /\ app \in PipelineApps
  /\ v # min_slider
  /\ min_slider' = v
  /\ app_text' = << >> /\ shown' = Blank /\ backend_calls' = << >>
  /\ ratio' = NoRatio
  /\ UNCHANGED <<app, max_slider, summary_history, history_set, saves, clock>>
  /\ UNCHANGED <<chunkVars, streamVars>>

\* app_cloud.main: the Generate Summary button with t in the text area and
\* the pipeline answering reps
AppCloudClick(t, reps) ==
  /\ app = "app_cloud"
  /\ app_text' = t
  /\ LET v == AppCloudValidate(t)
     IN  IF v # NoOutcome
         THEN shown' = Warning(v.value) /\ backend_calls' = << >>
              /\ ratio' = NoRatio
         ELSE LET r == Summarize("create_summary", t, max_slider,
                                 AdjustMin(max_slider, min_slider), reps)
              IN  /\ backend_calls' = r.calls
                  /\ IF r.outcome.kind = "raise"
                     THEN shown' = ErrorBox(ERROR_PREFIX \o r.outcome.msg)
                          /\ ratio' = NoRatio
                     ELSE LET q == Ratio(Len(Split(r.outcome.value)), Len(Split(t)))
                          IN  IF q.kind = "raise"
                              THEN shown' = ErrorBox(ERROR_PREFIX \o q.msg)
                                   /\ ratio' = NoRatio
                              ELSE shown' = SummaryBox(r.outcome.value)
                                   /\ ratio' = q.value
  /\ UNCHANGED <<app, max_slider, min_slider, summary_history, history_set,
                 saves, clock>>
  /\ UNCHANGED <<chunkVars, streamVars>>

\* gradio_version: the Generate Summary button, process_summary
GradioClick(t, reps) ==
  /\ app = "gradio_version"
  /\ app_text' = t
  /\ LET r == Summarize("summarize_text", t, max_slider, min_slider, reps)
         q == GetStatistics(t, r.outcome.value)
     IN  /\ backend_calls' = r.calls
         /\ IF q.kind = "raise"
            THEN shown' = Uncaught(q.exc) /\ ratio' = NoRatio
            ELSE shown' = SummaryBox(r.outcome.value) /\ ratio' = q.value
  /\ UNCHANGED <<app, max_slider, min_slider, summary_history, history_set,
                 saves, clock>>
  /\ UNCHANGED <<chunkVars, streamVars>>

\* ai_summarizer_app.main: the Generate Summary button with t as the text
\* and ollama.generate handing back res
BasicGenerate(t, res, model) ==
  /\ app = "ai_summarizer_app"
  /\ app_text' = t
  /\ IF Strip(t) = << >>
     THEN shown' = Warning(MSG_EMPTY) /\ backend_calls' = << >>
          /\ ratio' = NoRatio
     ELSE /\ backend_calls' = <<[model |-> model, text |-> t]>>
          /\ IF res.kind = "raise"
             THEN shown' = Uncaught("Exception") /\ ratio' = NoRatio
             ELSE IF Truthy(res)
             THEN LET q == Ratio(Len(res.value), Len(t))
                  IN  IF q.kind = "raise"
                      THEN shown' = Uncaught(q.exc) /\ ratio' = NoRatio
                      ELSE shown' = SummaryBox(res.value) /\ ratio' = q.value
             ELSE shown' = ErrorBox(MSG_FAILED) /\ ratio' = NoRatio
  /\ UNCHANGED <<app, max_slider, min_slider, summary_history, history_set,
                 saves, clock>>
  /\ UNCHANGED <<chunkVars, streamVars>>

\* streamlit_enhanced.main: the Generate Summary button; a summary is shown
\* with its statistics and saved to the history
EnhancedGenerate(t, res, model, type) ==
  /\ app = "streamlit_enhanced"
  /\ Truthy(res) => Len(saves) < MaxSaves
  /\ app_text' = t
  /\ IF Strip(t) = << >>
     THEN /\ shown' = Warning(MSG_EMPTY) /\ backend_calls' = << >>
          /\ ratio' = NoRatio
          /\ UNCHANGED <<summary_history, history_set, saves>>
     ELSE /\ backend_calls' = <<[model |-> model, text |-> t]>>
          /\ IF res.kind = "raise"
             THEN /\ shown' = Uncaught("Exception") /\ ratio' = NoRatio
                  /\ UNCHANGED <<summary_history, history_set, saves>>
             ELSE IF Truthy(res)
             THEN LET q     == Ratio(Len(res.value), Len(t))
                      entry == SessionData(t, res.value, model, type, clock)
                  IN  IF q.kind = "raise"
                      THEN /\ shown' = Uncaught(q.exc) /\ ratio' = NoRatio
                           /\ UNCHANGED <<summary_history, history_set, saves>>
                      ELSE /\ shown' = SummaryBox(res.value) /\ ratio' = q.value
                           /\ summary_history' = SaveSummarySession(summary_history, entry)
                           /\ history_set' = TRUE
                           /\ saves' = Append(saves, entry)
             ELSE /\ shown' = ErrorBox(MSG_FAILED) /\ ratio' = NoRatio
                  /\ UNCHANGED <<summary_history, history_set, saves>>
  /\ UNCHANGED <<app, max_slider, min_slider, clock>>
  /\ UNCHANGED <<chunkVars, streamVars>>

\* the Clear History button: summary_history = [] and st.rerun()
ClearHistory ==
  /\ app = "streamlit_enhanced"
  /\ summary_history' = << >>
  /\ history_set' = TRUE
  /\ saves' = << >>
  /\ app_text' = << >> /\ shown' = Blank /\ backend_calls' = << >>
  /\ ratio' = NoRatio
  /\ UNCHANGED <<app, max_slider, min_slider, clock>>
  /\ UNCHANGED <<chunkVars, streamVars>>

AppNext ==
  \/ \E a \in Apps : Launch(a)
  \/ Tick
  \/ \E t \in AppTexts, reps \in ReplyPlans : AppCloudClick(t, reps)
  \/ \E t \in AppTexts, reps \in ReplyPlans : GradioClick(t, reps)
  \/ \E t \in OllamaTexts, res \in GenerateResults, m \in ModelNames :
       BasicGenerate(t, res, m)
  \/ \E t \in OllamaTexts, res \in GenerateResults, m \in ModelNames,
        ty \in SummaryTypes : EnhancedGenerate(t, res, m, ty)
  \/ ClearHistory

AppSpec == Init /\ [][AppNext]_vars

\* the texts submitted while the sliders are moved: none, and one that
\* passes the validation
SliderTexts == {<< >>, MkText(1, min_text_len, "plain")}

\* ... to a pipeline that answers every call
SliderPlans == {[k \in 1..2 |-> ResultReply(<<[summary_text |-> <<"A">>]>>)] \o << >>}

SliderNext ==
  \/ \E a \in PipelineApps : Launch(a)
  \/ \E v \in MaxSliderValues : MoveMax(v)
  \/ \E v \in MinSliderValues : MoveMin(v)
  \/ \E t \in SliderTexts, reps \in SliderPlans : AppCloudClick(t, reps)
  \/ \E t \in SliderTexts, reps \in SliderPlans : GradioClick(t, reps)

SliderSpec == Init /\ [][SliderNext]_vars

\* ------------------------------------------------------- more on chunking
\* C12: the pipeline calls are issued one at a time in document order: at
\* most one call is outstanding, the call for chunk k+1 exists only once the
\* call for chunk k has returned successfully, and no call follows a failed
\* one.
C12_SequentialCalls ==
  /\ Len(calls) - Len(replies) \in {0, 1}
  /\ (pc = "calling") <=> (Len(calls) = Len(replies) + 1)
  /\ \A k \in 1..(Len(calls) - 1) : k <= Len(replies) /\ ReplyOk(replies[k])
  /\ branch = "chunked"
       => Len(calls) <= Len(chunks)
          /\ \A k \in 1..Len(calls) : calls[k].text = chunks[k]

C12_Witness ==
  /\ pc = "calling"
  /\ branch = "chunked"
  /\ Len(calls) = 3
  /\ Len(replies) = 2

\* the caller's budget satisfies the precondition 0 < minWords < maxWords
ValidBudget == 0 < min_length /\ min_length < max_length

\* C14 (as stated): with 0 < minWords < maxWords a per-chunk budget whose min
\* component is strictly greater than its max component eventually reaches
\* the pipeline.
C14_Original ==
  <>(/\ branch = "chunked"
     /\ ValidBudget
     /\ \E k \in 1..Len(calls) : calls[k].min_length > calls[k].max_length)

\* C14 (amended): with 0 < minWords < maxWords the per-chunk min never
\* exceeds the per-chunk max; the budget can still floor to 0 and reach the
\* pipeline.
C14_NoInversion ==
  /\ (branch = "chunked" /\ ValidBudget)
       => \A k \in 1..Len(calls) : calls[k].min_length <= calls[k].max_length
  /\ branch = "chunked"
       => \A mx \in 1..MaxBudget, mn \in 1..MaxBudget :
            mn < mx => LET call == ChunkCall(chunks, 1, mx, mn)
                       IN  call.min_length <= call.max_length

C14_Witness ==
  /\ branch = "chunked"
  /\ ValidBudget
  /\ Len(calls) = 3
  /\ calls[3].min_length = 0
  /\ calls[3].max_length > 0

OtherImpl(i) == IF i = "create_summary" THEN "summarize_text" ELSE "create_summary"

\* C17: for a text of at least 100 stripped characters and a pipeline that
\* does not fail, the other function, given the same arguments and the same
\* pipeline answers, makes the same calls and returns the same string.
C17_ImplementationsAgree ==
  (pc = "done" /\ AllOk /\ Len(Strip(text)) >= min_text_len)
    => LET other == Summarize(OtherImpl(impl), text, max_length, min_length, replies)
       IN  /\ other.calls = calls
           /\ other.outcome = outcome
           /\ outcome.kind = "return"

C17_Witness ==
  /\ pc = "done" /\ AllOk
  /\ impl = "summarize_text"
  /\ branch = "chunked"
  /\ Len(calls) = 3
  /\ outcome.kind = "return"

RECURSIVE SumOver(_, _)
SumOver(list, field) ==
  IF list = << >> THEN 0 ELSE Head(list)[field] + SumOver(Tail(list), field)

\* C20: over the chunks of one text the per-chunk max budgets sum to at most
\* maxWords and to more than maxWords - chunkCount, and the per-chunk min
\* budgets to at most minWords and to more than minWords - chunkCount.
C20_AggregateBudget ==
  (pc = "done" /\ AllOk /\ branch = "chunked")
    => /\ Len(calls) = Len(chunks)
       /\ SumOver(calls, "max_length") <= max_length
       /\ SumOver(calls, "max_length") > max_length - Len(chunks)
       /\ SumOver(calls, "min_length") <= min_length
       /\ SumOver(calls, "min_length") > min_length - Len(chunks)

C20_Witness ==
  /\ pc = "done" /\ AllOk /\ branch = "chunked"
  /\ Len(calls) = 3
  /\ SumOver(calls, "max_length") < max_length
  /\ SumOver(calls, "min_length") = 0

\* ---------------------------------------------------- the applications' claims
\* C11: summary_history holds at most 10 entries, exactly the min(10, k) most
\* recent of the k saves made since the history was last cleared, newest
\* first; the 11th save evicts the oldest entry and no other.
C11_HistoryCap ==
  LET k == Len(saves)
      n == Min(history_cap, k)
  IN  /\ Len(summary_history) <= 10
      /\ Len(summary_history) = n
      /\ \A j \in 1..n : summary_history[j] = saves[k - j + 1]

C11_Witness ==
  /\ app = "streamlit_enhanced"
  /\ Len(saves) = 11
  /\ Len(summary_history) = 10
  /\ summary_history[1].timestamp # summary_history[10].timestamp

\* The calls create_summary or summarize_text made carry the budget the
\* user interface passed.
PositiveBudget(call) ==
  /\ call.max_length > 0
  /\ call.min_length > 0
  /\ call.min_length < call.max_length

\* C13: every call into the summarize operation made by app_cloud.main or by
\* gradio process_summary passes positive integers with minWords < maxWords,
\* whatever the sliders are set to.
C13_BudgetPrecondition ==
  app \in PipelineApps
    => \A k \in 1..Len(backend_calls) : PositiveBudget(backend_calls[k])

\* a button handler ran in the last event
Clicked == shown.widget # "none"

\* C15: in the pipeline-backed apps the backend is not invoked for a text
\* whose stripped length is 0 or below 100; the user gets the matching
\* validation message; create_summary called on that text would invoke the
\* backend, as it validates nothing.
C15_ValidationBeforeBackend ==
  (app \in PipelineApps /\ Clicked /\ Len(Strip(app_text)) < min_text_len)
    => /\ backend_calls = << >>
       /\ shown.text = IF Strip(app_text) = << >> THEN MSG_EMPTY ELSE MSG_SHORT
       /\ ~ratio.computed
       /\ Summarize("create_summary", app_text, max_slider, min_slider, << >>).calls
            = <<PipelineCall(app_text, max_slider, min_slider)>>

C15_Witness ==
  /\ app = "app_cloud"
  /\ shown = Warning(MSG_SHORT)
  /\ Len(Strip(app_text)) = min_text_len - 1
  /\ backend_calls = << >>

\* one Generate Summary click of streamlit_enhanced, whatever model and type
GenerateStep(t, res) ==
  \E m \in ModelNames, ty \in SummaryTypes : EnhancedGenerate(t, res, m, ty)

\* C18: a Generate click whose backend result is None or '' leaves the
\* history as it is and shows the failure message; a click that yields a
\* non-empty summary prepends exactly one entry (the cap may drop the
\* last); within a session only Clear History removes any other entry.
C18_HistoryOnlyOnSuccess ==
  [][/\ \A t \in OllamaTexts, res \in GenerateResults :
          GenerateStep(t, res)
            => IF Strip(t) # << >> /\ res.kind = "str" /\ res.value # << >>
               THEN /\ Len(summary_history') >= 1
                    /\ summary_history'[1].summary = res.value
                    /\ summary_history'[1].original_length = Len(t)
                    /\ Tail(summary_history')
                         = SubSeq(summary_history, 1,
                                  Min(Len(summary_history), Len(summary_history') - 1))
                    /\ Len(summary_history') = Min(10, Len(summary_history) + 1)
               ELSE /\ summary_history' = summary_history
                    /\ history_set' = history_set
                    /\ (Strip(t) # << >> /\ res.kind # "raise")
                         => shown' = ErrorBox(MSG_FAILED)
     /\ (Len(summary_history') < Len(summary_history))
          => (ClearHistory \/ \E a \in Apps : Launch(a))
    ]_vars

C18_Witness ==
  /\ app = "streamlit_enhanced"
  /\ shown = ErrorBox(MSG_FAILED)
  /\ backend_calls # << >>
  /\ Len(summary_history) = 2

\* C19: wherever a compression ratio is computed its denominator, the word
\* count (pipeline apps) or the length (Ollama apps) of the submitted text,
\* is positive: no handler ends in a ZeroDivisionError.
C19_NoDivisionByZero ==
  /\ ratio.computed
       => /\ ratio.den > 0
          /\ ratio.den = IF app \in PipelineApps THEN Len(Split(app_text))
                         ELSE Len(app_text)
  /\ shown # Uncaught("ZeroDivisionError")
  /\ shown # ErrorBox(ERROR_PREFIX \o ZeroDivisionMsg)

C19_Witness ==
  /\ app = "gradio_version"
  /\ ratio.computed
  /\ ratio.den = 1
  /\ shown.widget = "summary"

\* the string is no summary for get_statistics
LooksLikeMessage(summary) ==
  \/ summary = << >>
  \/ IsPrefix(ErrorWord, summary)
  \/ IsPrefix(PleaseWord, summary)

\* C21: process_summary shows no statistics exactly when the string it got
\* from summarize_text is empty or begins with "Error" or "Please", and the
\* word counts and their ratio otherwise; so a summary the pipeline
\* produced that begins with "Please" is shown without statistics, as a
\* failure is.
C21_BlankStatistics ==
  (app = "gradio_version" /\ Clicked)
    => /\ shown.widget = "summary"
       /\ IF LooksLikeMessage(shown.text)
          THEN ratio = NoRatio
          ELSE /\ ratio.computed
               /\ ratio.num = Len(Split(shown.text))
               /\ ratio.den = Len(Split(app_text))

C21_Witness ==
  /\ app = "gradio_version"
  /\ Len(backend_calls) = 1
  /\ shown = SummaryBox(PleaseWord \o <<" ", "c">>)
  /\ ratio = NoRatio

\* the line is valid JSON and has no response field
NoResponseField(line) ==
  /\ JsonLoads(line).kind = "return"
  /\ \/ JsonLoads(line).value.type # "dict"
     \/ "response" \notin DOMAIN JsonLoads(line).value.items

\* C22: for a streamed response whose lines are empty, valid JSON without a
\* response field, or objects carrying a response fragment, either handler
\* reads to the end and returns the fragments concatenated in receipt order
\* (the empty string when there are none).
C22_LinesWithoutFragment ==
  (/\ s_pc = "done"
   /\ \A k \in 1..Len(received) :
        \/ received[k] = ""
        \/ NoResponseField(received[k])
        \/ HasFragment(received[k]))
    => s_outcome = Returned(Fragments(received))

====
